---- MODULE Spec2Model ----
(***************************************************************************)
(* Model of the LawBot 360 voice sales agent (src/main.py): the in-memory  *)
(* conversation records, the two de-duplication sets, the Twilio voice     *)
(* webhooks and the payment-confirmed webhook.                             *)
(*                                                                         *)
(* The Flask telephone service (src/twilio_phone_integration.py) is a      *)
(* program of its own: its requests run on threads that share              *)
(* active_conversations, and each step of a thread is one access to it.    *)
(* The sales agents of src/lawbot_voice_sales_agent.py and                 *)
(* src/human_update.py are followed through their chat_with_gpt calls.     *)
(*                                                                         *)
(* Texts are TLA+ strings; Python's str operations (lower, strip, split,   *)
(* the substring test "k in s") are computed character by character.       *)
(* TwiML documents are sequences of verbs <<name, argument>>.              *)
(***************************************************************************)
EXTENDS Integers, Sequences, FiniteSets, TLC

VARIABLES
    env,                    \* process environment: PHONE, ADMIN_EMAIL, FROM_EMAIL
    conversations,          \* dict call_sid -> record
    conv_order,             \* insertion order of the dict's keys
    sent_notifications,     \* set of call_sids
    sent_integration_forms, \* set of key strings
    notifications,          \* observed: per call_sid, the transfer notifications produced
    form_emails,            \* observed: the integration-form emails resend.Emails.send accepted
    webhook_matched,        \* observed: call_sids a payment webhook matched
    webhook_processed,      \* observed: <<project_id, user_email>> of webhooks that confirmed a payment
    last,                   \* observed: the last request and its response
    llm_budget,             \* get_ai_response calls the model still follows
    active_conversations,   \* twilio_phone_integration: dict call_sid -> bot (an index of bots)
    bots,                   \* the VoiceSalesBot objects created so far
    threads,                \* the requests being served: handler, position, locals
    phone_last,             \* observed: the last response of the telephone service
    sales,                  \* lawbot_voice_sales_agent: a VoiceSalesBot's context and its last chat
    handoff                 \* human_update: a VoiceSalesBot's context and its last chat

\* the state of src/main.py
mainVars == <<env, conversations, conv_order, sent_notifications, sent_integration_forms,
              notifications, form_emails, webhook_matched, webhook_processed, last,
              llm_budget>>

\* the state of src/twilio_phone_integration.py
phoneVars == <<active_conversations, bots, threads, phone_last>>

\* the state of the two sales agents run in text or voice mode
agentVars == <<sales, handoff>>

\* what a request to src/main.py cannot touch
notMain == <<phoneVars, agentVars>>

\* what a request to src/twilio_phone_integration.py cannot touch
notPhone == <<mainVars, agentVars>>

vars == <<mainVars, phoneVars, agentVars>>

-----------------------------------------------------------------------------
(* Bounds *)

\* most get_ai_response calls, over all calls together, followed with every handler enabled
MaxAICalls == 1
\* most get_ai_response calls followed for one call and its payment
MaxPaymentAICalls == 2
\* most get_ai_response calls followed for one call whose caller repeats the firm's name
MaxFirmNameAICalls == 3
\* most get_ai_response calls followed for two calls that talk to the AI
MaxTwoCallsAICalls == 3
\* most get_ai_response calls followed for one call whose caller answers the AI's questions
MaxAnswersAICalls == 5
\* most chat_with_gpt calls followed for the sales agent
MaxSalesChats == 8
\* most chat_with_gpt calls followed for the agent with the human handoff
MaxHandoffChats == 5
\* most requests the telephone service serves at once, beside those served in one step
MaxThreads == 2
\* most VoiceSalesBot objects followed
MaxBots == 2
\* most transcriptions waiting in a bot's pending_transcription
MaxPending == 1

-----------------------------------------------------------------------------
(* Python values and str operations *)

\* Python's None (a value no text equals)
None == "<None>"
\* a dict key that is not present
Missing == "<missing>"

Truthy(v) == v # None /\ v # ""

UpperCase == "ABCDEFGHIJKLMNOPQRSTUVWXYZ"
LowerCase == "abcdefghijklmnopqrstuvwxyz"

\* upper-case letter -> lower-case letter
LowerMap ==
    [c \in {SubSeq(UpperCase, i, i) : i \in 1..26} |->
        LET i == CHOOSE j \in 1..26 : SubSeq(UpperCase, j, j) = c
        IN  SubSeq(LowerCase, i, i)]

LowerChar(c) == IF c \in DOMAIN LowerMap THEN LowerMap[c] ELSE c

RECURSIVE Lower(_)
\* str.lower()
Lower(s) ==
    IF Len(s) = 0 THEN ""
    ELSE LowerChar(SubSeq(s, 1, 1)) \o Lower(SubSeq(s, 2, Len(s)))

\* k in s
Contains(s, k) ==
    \E i \in 1..(Len(s) - Len(k) + 1) : SubSeq(s, i, i + Len(k) - 1) = k

\* any(k in s for k in keys)
ContainsAny(s, keys) == \E k \in keys : Contains(s, k)

RECURSIVE RStripChars(_, _)
\* str.rstrip(chars)
RStripChars(s, chars) ==
    IF Len(s) > 0 /\ Contains(chars, SubSeq(s, Len(s), Len(s)))
    THEN RStripChars(SubSeq(s, 1, Len(s) - 1), chars)
    ELSE s

RECURSIVE LStripChars(_, _)
\* str.lstrip(chars)
LStripChars(s, chars) ==
    IF Len(s) > 0 /\ Contains(chars, SubSeq(s, 1, 1))
    THEN LStripChars(SubSeq(s, 2, Len(s)), chars)
    ELSE s

\* str.strip(chars)
StripChars(s, chars) == LStripChars(RStripChars(s, chars), chars)

\* str.strip()
Strip(s) == StripChars(s, " ")

RECURSIVE SplitFrom(_, _)
\* str.split(): the words of s, with cur the word being read
SplitFrom(s, cur) ==
    IF Len(s) = 0 THEN (IF cur = "" THEN <<>> ELSE <<cur>>)
    ELSE IF SubSeq(s, 1, 1) = " "
         THEN (IF cur = "" THEN <<>> ELSE <<cur>>) \o SplitFrom(SubSeq(s, 2, Len(s)), "")
         ELSE SplitFrom(SubSeq(s, 2, Len(s)), cur \o SubSeq(s, 1, 1))

Split(s) == SplitFrom(s, "")

-----------------------------------------------------------------------------
(* Inputs *)

CallSids == {"CA1", "CA2"}

\* the caller's number in the Twilio form ('From'); None when the field is absent
FromNumbers == {"+15550001", None}

\* Digits of a request; None when the field is absent
\* the keys a caller answers a menu with
MenuDigits == {None, "1", "2", "9"}
\* the keys a prospect answers the cold-call opening with
ColdCallDigits == {None, "1", "2"}
\* Digits a caller sends during the conversation
ConversationDigits == {None, "*"}

\* SpeechResult of a request; None when the field is absent
SpeechInputs == {None, "a Human please", "Yes.", "law bob@x.com."}

\* SpeechResult of a reply to the cold-call opening
ColdCallSpeech == {None, "Yes.", "No thanks"}

\* message.content of a chat completion
LLMReplies == {"Does that sound good?", "Congratulations! All done."}
\* the chat-completion call raising
LLMRaises == "<raises>"
LLMOutcomes == LLMReplies \cup {LLMRaises}

\* JSON body of the payment webhook
ProjectIds == {"P1", "P2"}
WebhookEmails == {None, "BOB@x.com"}
WebhookPhones == {None, "+15550001"}

\* os.getenv values the process was started with: a deployment with the transfer
\* number and a sending domain set, and one with neither
Deployed == [PHONE |-> "+15043833692", ADMIN_EMAIL |-> "noreply@4dgaming.games", FROM_EMAIL |-> None]
Unconfigured == [PHONE |-> None, ADMIN_EMAIL |-> None, FROM_EMAIL |-> "owner@gmail.com"]
Environments == {Deployed, Unconfigured}

\* a reply shorter than this is replaced by the fallback text (line 622)
MinReplyLen == 10

HUMAN_PHONE == env.PHONE
VOICE == "Polly.Joanna"

\* form_data.get(key, default)
FormGet(v, default) == IF v = None THEN default ELSE v

-----------------------------------------------------------------------------
(* TwiML *)

Say(text) == <<"Say", text>>
Gather(input, action) == <<"Gather", action, input>>
Dial(number) == <<"Dial", number>>
Redirect(url) == <<"Redirect", url>>
Hangup == <<"Hangup", "">>

HasVerb(twiml, name) == \E i \in 1..Len(twiml) : twiml[i][1] = name

\* transfer_to_human(response, reason): the verbs it appends
transfer_to_human ==
    IF ~Truthy(HUMAN_PHONE)
    THEN << Say("I apologize, but I'm unable to transfer you right now. Please call us directly at 504-383-3692.") >>
    ELSE << Dial(HUMAN_PHONE) >>

-----------------------------------------------------------------------------
(* get_ai_response *)

Msg(role, content) == [role |-> role, content |-> content]

\* a new record that starts with the payment confirmed
NewConversation_Confirmed ==
    [ history |-> <<>>,
      stage |-> "greeting",
      phase |-> "SALES",
      current_step |-> 1,
      committed |-> FALSE,
      client_name |-> None,
      firm_name |-> None,
      email |-> None,
      phone_number |-> None,
      selected_addons |-> <<>>,
      selected_maintenance |-> None,
      payment_completed |-> FALSE,
      payment_confirmed_by_webhook |-> TRUE,
      silence_count |-> 0,
      project_id |-> Missing ]

\* the record get_ai_response creates for a call_sid it has not seen
NewConversation ==
    [ history |-> <<>>,
      stage |-> "greeting",
      phase |-> "SALES",
      current_step |-> 1,
      committed |-> FALSE,
      client_name |-> None,
      firm_name |-> None,
      email |-> None,
      phone_number |-> None,
      selected_addons |-> <<>>,
      selected_maintenance |-> None,
      payment_completed |-> FALSE,
      payment_confirmed_by_webhook |-> FALSE,
      silence_count |-> 0,
      project_id |-> Missing ]

affirmative_responses ==
    {"yes", "yeah", "yep", "yup", "sure", "okay", "ok", "definitely",
     "absolutely", "let's do it", "i'm interested", "sounds good",
     "that works", "i'd like that", "i want it", "let's get started"}

closing_indicators ==
    {"interested in learning more", "does that sound", "would that help",
     "sound like it would help", "make sense for your", "ready to",
     "want to get started", "shall we get", "would you like", "does this sound",
     "would this help", "sound helpful", "sound like a good fit",
     "let's get you set up", "let's get started", "start capturing those leads",
     "get you set up"}

discovery_indicators ==
    {"are you losing leads", "do you have", "are you currently", "does your office",
     "how does your", "what happens when", "do leads", "does your receptionist",
     "after hours", "outside business hours"}

\* history[-n:]
LastN(h, n) == SubSeq(h, IF Len(h) > n THEN Len(h) - n + 1 ELSE 1, Len(h))

\* the content of the last assistant message of h, "" when there is none
LastAssistant(h) ==
    LET idx == {i \in 1..Len(h) : h[i].role = "assistant"}
    IN  IF idx = {} THEN ""
        ELSE h[CHOOSE i \in idx : \A j \in idx : j <= i].content

\* the check taking a yes to any question with a closing phrase for the commitment
PhaseSwitch_IgnoringDiscovery(conv, user_input) ==
    LET user_input_clean == RStripChars(Strip(Lower(user_input)), ".,!?;")
        last_bot_message == LastAssistant(LastN(conv.history, 4))
        is_closing_question == ContainsAny(Lower(last_bot_message), closing_indicators)
    IN  IF /\ conv.phase = "SALES"
           /\ user_input_clean \in affirmative_responses
           /\ is_closing_question
        THEN [conv EXCEPT !.committed = TRUE, !.phase = "ONBOARDING", !.current_step = 1]
        ELSE conv

\* the SALES -> ONBOARDING check on a record whose history already holds the user message
PhaseSwitch(conv, user_input) ==
    LET user_input_clean == RStripChars(Strip(Lower(user_input)), ".,!?;")
        last_bot_message == LastAssistant(LastN(conv.history, 4))
        is_closing_question == ContainsAny(Lower(last_bot_message), closing_indicators)
        is_discovery_question == ContainsAny(Lower(last_bot_message), discovery_indicators)
    IN  IF /\ conv.phase = "SALES"
           /\ user_input_clean \in affirmative_responses
           /\ is_closing_question
           /\ ~is_discovery_question
        THEN [conv EXCEPT !.committed = TRUE, !.phase = "ONBOARDING", !.current_step = 1]
        ELSE conv

\* the onboarding step tracking run on the assistant's reply
StepTracking(conv, ai_response) ==
    LET r == Lower(ai_response)
        has(k) == Contains(r, k)
    IN  IF conv.phase # "ONBOARDING" THEN conv
        ELSE IF has("4dgaming.games/client-portal") THEN [conv EXCEPT !.current_step = 1]
        ELSE IF has("create your account") \/ has("log in") THEN [conv EXCEPT !.current_step = 2]
        ELSE IF has("start a new project") THEN [conv EXCEPT !.current_step = 3]
        ELSE IF has("select service") \/ has("choose 'lawbot") THEN [conv EXCEPT !.current_step = 4]
        ELSE IF has("project name") /\ has("firm") THEN [conv EXCEPT !.current_step = 5]
        ELSE IF has("brief description") THEN [conv EXCEPT !.current_step = 6]
        ELSE IF has("optional features") \/ has("add-ons") THEN [conv EXCEPT !.current_step = 7]
        ELSE IF has("maintenance plan") THEN [conv EXCEPT !.current_step = 8]
        ELSE IF has("create project") /\ has("button") THEN [conv EXCEPT !.current_step = 9]
        ELSE IF has("project summary") THEN [conv EXCEPT !.current_step = 10]
        ELSE IF has("upload") \/ has("files") \/ has("browse") THEN [conv EXCEPT !.current_step = 11]
        ELSE IF has("fund milestone") \/ has("payment page") THEN [conv EXCEPT !.current_step = 12]
        ELSE IF has("take your time") /\ has("payment") THEN [conv EXCEPT !.current_step = 13]
        ELSE IF has("congratulations")
             THEN [conv EXCEPT !.current_step = 14, !.payment_completed = TRUE]
        ELSE conv

CannedApology == "I apologize, let me connect you with a human specialist who can help."

\* dict assignment d[k] = v
Put(d, k, v) == [x \in (DOMAIN d) \cup {k} |-> IF x = k THEN v ELSE d[x]]

\* get_ai_response starting every call from a new record
get_ai_response_Replacing(convs, order, call_sid, user_input, llm) ==
    LET known == call_sid \in DOMAIN convs
        c1 == [NewConversation EXCEPT !.history = Append(@, Msg("user", user_input))]
        c2 == PhaseSwitch(c1, user_input)
        c3 == IF llm = LLMRaises THEN c2
              ELSE StepTracking([c2 EXCEPT !.history = Append(@, Msg("assistant", llm))], llm)
    IN  [ conversations |-> Put(convs, call_sid, c3),
          order |-> IF known THEN order ELSE Append(order, call_sid),
          text |-> IF llm = LLMRaises THEN CannedApology ELSE llm,
          raised |-> llm = LLMRaises ]

\* get_ai_response(call_sid, user_input, stage) with llm the outcome of the
\* chat-completion call: the dict afterwards, its key order and the text returned
get_ai_response(convs, order, call_sid, user_input, llm) ==
    LET known == call_sid \in DOMAIN convs
        c0 == IF known THEN convs[call_sid] ELSE NewConversation
        c1 == [c0 EXCEPT !.history = Append(@, Msg("user", user_input))]
        c2 == PhaseSwitch(c1, user_input)
        c3 == IF llm = LLMRaises THEN c2
              ELSE StepTracking([c2 EXCEPT !.history = Append(@, Msg("assistant", llm))], llm)
    IN  [ conversations |-> Put(convs, call_sid, c3),
          order |-> IF known THEN order ELSE Append(order, call_sid),
          text |-> IF llm = LLMRaises THEN CannedApology ELSE llm,
          raised |-> llm = LLMRaises ]

\* the model follows the process while llm_budget lasts; each call uses one
AICallRoom == llm_budget > 0
UseAICall == llm_budget' = llm_budget - 1

-----------------------------------------------------------------------------
(* notify_human_transfer *)

\* what the try block of notify_human_transfer does about the email,
\* with send_ok whether resend.Emails.send returns or raises
NotifyEmailOutcome(send_ok) ==
    LET sender_email == IF Truthy(env.ADMIN_EMAIL) THEN env.ADMIN_EMAIL ELSE env.FROM_EMAIL
    IN  IF ~Truthy(sender_email) THEN "no_sender"
        ELSE IF Contains(Lower(sender_email), "@gmail.com") THEN "gmail_sender"
        ELSE IF send_ok THEN "sent"
        ELSE "send_failed"

\* a notify_human_transfer that marks the call only once its email has gone out
notify_human_transfer_MarkWhenSent(sent, notifs, from_number, call_sid, reason, send_ok) ==
    IF call_sid \in sent
    THEN [sent |-> sent, notifs |-> notifs]
    ELSE [ sent |-> IF NotifyEmailOutcome(send_ok) = "sent" THEN sent \cup {call_sid} ELSE sent,
           notifs |-> [notifs EXCEPT ![call_sid] = Append(@, NotifyEmailOutcome(send_ok))] ]

\* notify_human_transfer(from_number, call_sid, reason): sent_notifications
\* afterwards, and the notifications produced so far (console log plus the
\* outcome of the email attempt)
notify_human_transfer(sent, notifs, from_number, call_sid, reason, send_ok) ==
    IF call_sid \in sent
    THEN [sent |-> sent, notifs |-> notifs]
    ELSE [ sent |-> sent \cup {call_sid},
           notifs |-> [notifs EXCEPT ![call_sid] = Append(@, NotifyEmailOutcome(send_ok))] ]

\* a handler calling notify_human_transfer: its effect on the notification state
Notify(from_number, call_sid, reason) ==
    \E send_ok \in BOOLEAN :
        LET n == notify_human_transfer(sent_notifications, notifications,
                                       from_number, call_sid, reason, send_ok)
        IN  /\ sent_notifications' = n.sent
            /\ notifications' = n.notifs

\* what the model records about a request and its response
Result(handler, call_sid, speech, digits, twiml, ai_calls, ai_raised, notify_calls, status, message, redirected) ==
    [ handler |-> handler, call_sid |-> call_sid, speech |-> speech, digits |-> digits,
      twiml |-> twiml, ai_calls |-> ai_calls, ai_raised |-> ai_raised,
      notify_calls |-> notify_calls, status |-> status, message |-> message,
      redirected |-> redirected ]

NoResult == Result("", None, None, None, <<>>, 0, FALSE, 0, None, None, FALSE)

-----------------------------------------------------------------------------
(* Voice handlers *)

\* POST /voice/inbound
handle_inbound_call(call_sid) ==
    /\ last' = Result("inbound", call_sid, None, None,
                      << Say("Hi! Thanks for calling 4D Gaming about LawBot 360. Press 1 to speak with me about our AI client intake system, or press 2 to speak with a human team member right away."),
                         Gather("dtmf", "/voice/handle-choice"),
                         Say("I didn't receive a selection. Transferring you now.") >>
                      \o transfer_to_human,
                      0, FALSE, 0, None, None, FALSE)
    /\ UNCHANGED <<env, conversations, conv_order, sent_notifications, sent_integration_forms,
                   notifications, form_emails, webhook_matched, webhook_processed, llm_budget>>

\* POST /voice/outbound/cold-call
initiate_cold_call(call_sid) ==
    /\ last' = Result("cold-call", call_sid, None, None,
                      << Say("Hi! This is calling from 4D Gaming. Quick question - are you losing leads outside business hours, nights and weekends? We fix that with AI. Got 5 minutes?"),
                         Gather("speech dtmf", "/voice/cold-call-response"),
                         Say("Hi, this is calling about LawBot 360. We help law firms capture leads 24/7 with AI. Visit lawbot360.com or call us back. Thanks!") >>,
                      0, FALSE, 0, None, None, FALSE)
    /\ UNCHANGED <<env, conversations, conv_order, sent_notifications, sent_integration_forms,
                   notifications, form_emails, webhook_matched, webhook_processed, llm_budget>>

interested_keywords == {"yes", "sure", "okay", "interested", "tell me", "go ahead"}
not_interested_keywords == {"no", "busy", "not interested", "remove", "stop"}

\* POST /voice/cold-call-response
handle_cold_call_response(call_sid, SpeechResult, Digits, llms) ==
    LET speech_result == Lower(FormGet(SpeechResult, ""))
        digits == FormGet(Digits, "")
    IN  IF ContainsAny(speech_result, interested_keywords) \/ digits = "1"
        THEN /\ AICallRoom
             /\ UseAICall
             /\ \E llm \in llms :
                LET g == get_ai_response(conversations, conv_order, call_sid,
                                         "Customer said yes to 5 minute pitch", llm)
                IN  /\ conversations' = g.conversations
                    /\ conv_order' = g.order
                    /\ last' = Result("cold-call-response", call_sid, SpeechResult, Digits,
                                      << Say(g.text), Redirect("/voice/conversation") >>,
                                      1, g.raised, 0, None, None, FALSE)
             /\ UNCHANGED <<env, sent_notifications, sent_integration_forms, notifications,
                            form_emails, webhook_matched, webhook_processed>>
        ELSE /\ last' = Result("cold-call-response", call_sid, SpeechResult, Digits,
                               IF ContainsAny(speech_result, not_interested_keywords)
                               THEN << Say("No problem. Have a great day!"), Hangup >>
                               ELSE << Say("Sorry, I didn't catch that. Do you have 5 minutes to hear how we can help? Press 1 for yes, 2 for no."),
                                       Gather("dtmf", "/voice/cold-call-response") >>,
                               0, FALSE, 0, None, None, FALSE)
             /\ UNCHANGED <<env, conversations, conv_order, sent_notifications,
                            sent_integration_forms, notifications, form_emails,
                            webhook_matched, webhook_processed, llm_budget>>

\* a menu choice other than the AI assistant's key, taken for it
ChoosesAI_UnlessHuman(choice) == choice # "2"

\* the first test of handle_choice on the key pressed
ChoosesAI(choice) == choice = "1"

\* POST /voice/handle-choice
handle_choice(call_sid, Digits, from_number, llms) ==
    LET choice == Digits
    IN  IF ChoosesAI(choice)
        THEN /\ AICallRoom
             /\ UseAICall
             /\ \E llm \in llms :
                LET g == get_ai_response(conversations, conv_order, call_sid,
                                         "User chose AI assistant to learn about LawBot 360", llm)
                IN  /\ conversations' = g.conversations
                    /\ conv_order' = g.order
                    /\ last' = Result("handle-choice", call_sid, None, Digits,
                                      << Say(g.text),
                                         Gather("speech", "/voice/conversation"),
                                         Say("I'm here to help. What would you like to know?"),
                                         Gather("speech", "/voice/conversation"),
                                         Say("Let me connect you with someone who can help.") >>
                                      \o transfer_to_human,
                                      1, g.raised, 1, None, None, FALSE)
             /\ Notify(from_number, call_sid, "No response after initial greeting")
             /\ UNCHANGED <<env, sent_integration_forms, form_emails, webhook_matched,
                            webhook_processed>>
        ELSE /\ Notify(from_number, call_sid,
                       IF choice = "2" THEN "User requested human from menu"
                       ELSE "Invalid menu choice")
             /\ last' = Result("handle-choice", call_sid, None, Digits,
                               << Say(IF choice = "2" THEN "Connecting you now."
                                      ELSE "Let me transfer you to a team member.") >>
                               \o transfer_to_human,
                               0, FALSE, 1, None, None, FALSE)
             /\ UNCHANGED <<env, conversations, conv_order, sent_integration_forms,
                            form_emails, webhook_matched, webhook_processed, llm_budget>>

RECURSIVE CaptureEmail(_, _)
\* the loop over speech_result.lower().split(): the email after the words, given the one before
CaptureEmail(words, email) ==
    IF Len(words) = 0 THEN email
    ELSE CaptureEmail(Tail(words),
                      IF Contains(Head(words), "@") /\ Contains(Head(words), ".")
                      THEN StripChars(Head(words), ".,!?")
                      ELSE email)

\* lines 594-613 of conversation: phone number, email and firm name captured from
\* the request into the call's record, when the call has one
CaptureFields(convs, call_sid, speech_result, from_number) ==
    IF call_sid \notin DOMAIN convs THEN convs
    ELSE LET c0 == convs[call_sid]
             c1 == [c0 EXCEPT !.phone_number = from_number]
             c2 == IF Contains(speech_result, "@") /\ Contains(speech_result, ".")
                   THEN [c1 EXCEPT !.email = CaptureEmail(Split(Lower(speech_result)), @)]
                   ELSE c1
             c3 == IF Contains(Lower(speech_result), "firm") \/ Contains(Lower(speech_result), "law")
                   THEN [c2 EXCEPT !.firm_name = speech_result]
                   ELSE c2
         IN  [convs EXCEPT ![call_sid] = c3]

human_request_words == {"human", "person", "representative", "transfer"}

\* the test for a human request made on the speech as it was transcribed
IsHumanRequest_CaseSensitive(speech_result, digits) ==
    Contains(digits, "*") \/ ContainsAny(speech_result, human_request_words)

\* the test of line 583
IsHumanRequest(speech_result, digits) ==
    Contains(digits, "*") \/ ContainsAny(Lower(speech_result), human_request_words)

\* the verbs conversation returns after an AI reply that keeps the caller with the AI
ContinueTwiml(ai_text) ==
    << Say(ai_text),
       Gather("speech", "/voice/conversation"),
       Say("Are you still there?"),
       Gather("speech", "/voice/conversation"),
       Say("I'm still here. Let me know when you're ready."),
       Gather("speech", "/voice/conversation"),
       Say("I'm having trouble hearing you. Let me connect you with someone who can help."),
       Dial(HUMAN_PHONE) >>

\* the text conversation speaks for what get_ai_response returned
SpokenText(text) ==
    IF text = "" \/ Len(Strip(text)) < MinReplyLen
    THEN "I'm here to help. Could you tell me more about that?"
    ELSE text

\* the test for a reply that announces a transfer in so many words
AIWantsTransfer_TransferOnly(ai_text) ==
    Contains(Lower(ai_text), "transfer")

\* the test of line 627
AIWantsTransfer(ai_text) ==
    Contains(Lower(ai_text), "transfer") \/ Contains(Lower(ai_text), "specialist")

\* the body of POST /voice/conversation; redirected tells a request Twilio made
\* for a <Redirect> from one made for a <Gather>
conversation_body(call_sid, SpeechResult, Digits, from_number, llms, redirected) ==
    LET speech_result == FormGet(SpeechResult, "")
        digits == FormGet(Digits, "")
    IN  IF IsHumanRequest(speech_result, digits)
        THEN /\ Notify(from_number, call_sid, "User requested transfer during conversation")
             /\ last' = Result("conversation", call_sid, SpeechResult, Digits,
                               << Say("Of course, let me transfer you to a specialist now.") >>
                               \o transfer_to_human,
                               0, FALSE, 1, None, None, redirected)
             /\ UNCHANGED <<conversations, conv_order, llm_budget>>
        ELSE IF speech_result # ""
        THEN /\ AICallRoom
             /\ UseAICall
             /\ \E llm \in llms :
                LET captured == CaptureFields(conversations, call_sid, speech_result, from_number)
                    g == get_ai_response(captured, conv_order, call_sid, speech_result, llm)
                    ai_text == SpokenText(g.text)
                IN    /\ conversations' = g.conversations
                      /\ conv_order' = g.order
                      /\ IF AIWantsTransfer(ai_text)
                         THEN /\ Notify(from_number, call_sid, "AI determined human needed")
                              /\ last' = Result("conversation", call_sid, SpeechResult, Digits,
                                                << Say(ai_text) >> \o transfer_to_human,
                                                1, g.raised, 1, None, None, redirected)
                         ELSE /\ UNCHANGED <<sent_notifications, notifications>>
                              /\ last' = Result("conversation", call_sid, SpeechResult, Digits,
                                                ContinueTwiml(ai_text),
                                                1, g.raised, 0, None, None, redirected)
        ELSE /\ Notify(from_number, call_sid, "No speech detected")
             /\ last' = Result("conversation", call_sid, SpeechResult, Digits,
                               << Say("I'm sorry, I didn't hear anything. Let me connect you with a human specialist.") >>
                               \o transfer_to_human,
                               0, FALSE, 1, None, None, redirected)
             /\ UNCHANGED <<conversations, conv_order, llm_budget>>

\* POST /voice/conversation, requested for a <Gather> (or by any client)
conversation(call_sid, SpeechResult, Digits, from_number, llms) ==
    /\ conversation_body(call_sid, SpeechResult, Digits, from_number, llms, FALSE)
    /\ UNCHANGED <<env, sent_integration_forms, form_emails, webhook_matched,
                   webhook_processed>>

\* the response just returned tells Twilio to <Redirect> the call to /voice/conversation
RedirectsToConversation(res) ==
    \E i \in 1..Len(res.twiml) : res.twiml[i] = Redirect("/voice/conversation")

\* POST /voice/conversation, requested by Twilio carrying out the <Redirect> of the
\* response it just received: the call's parameters, no SpeechResult and no Digits
conversation_after_redirect(from_number, llms) ==
    /\ RedirectsToConversation(last)
    /\ conversation_body(last.call_sid, None, None, from_number, llms, TRUE)
    /\ UNCHANGED <<env, sent_integration_forms, form_emails, webhook_matched,
                   webhook_processed>>

DialStatuses == {"completed", "busy", None}

\* POST /voice/dial-status
dial_status(call_sid, from_number, dial_call_status) ==
    /\ IF dial_call_status \in {"completed", "answered"} /\ Truthy(call_sid) /\ Truthy(from_number)
       THEN Notify(from_number, call_sid, "Transferred after no response to prompts")
       ELSE UNCHANGED <<sent_notifications, notifications>>
    /\ last' = Result("dial-status", call_sid, None, None,
                      << Say(CASE dial_call_status \in {"completed", "answered"} ->
                                    "Thank you for using our service. Goodbye!"
                               [] dial_call_status = "busy" ->
                                    "I'm sorry, the line is busy. Please try again later or call us directly at 504-383-3692."
                               [] dial_call_status = "no-answer" ->
                                    "I'm sorry, no one answered. Please call us directly at 504-383-3692 or try again later."
                               [] dial_call_status = "failed" ->
                                    "I'm sorry, the transfer failed. Please call us directly at 504-383-3692."
                               [] OTHER -> "Thank you for calling.") >>,
                      0, FALSE,
                      IF dial_call_status \in {"completed", "answered"} /\ Truthy(call_sid) /\ Truthy(from_number)
                      THEN 1 ELSE 0,
                      None, None, FALSE)
    /\ UNCHANGED <<env, conversations, conv_order, sent_integration_forms, form_emails,
                   webhook_matched, webhook_processed, llm_budget>>

\* POST /voice/fallback-choice
fallback_choice(call_sid, Digits, from_number) ==
    /\ Notify(from_number, call_sid,
              IF Digits = "1" THEN "User chose human from fallback" ELSE "Multiple failed attempts")
    /\ last' = Result("fallback-choice", call_sid, None, Digits,
                      (IF Digits = "1"
                       THEN << Say("Great, connecting you now.") >>
                       ELSE << Say("Okay, let's continue. Tell me about your law firm's current intake process."),
                               Gather("speech", "/voice/conversation"),
                               Say("Let me connect you with someone.") >>)
                      \o transfer_to_human,
                      0, FALSE, 1, None, None, FALSE)
    /\ UNCHANGED <<env, conversations, conv_order, sent_integration_forms, form_emails,
                   webhook_matched, webhook_processed, llm_budget>>

-----------------------------------------------------------------------------
(* Payment webhook *)

\* str(v) inside an f-string
Str(v) == IF v = None THEN "None" ELSE v

\* send_integration_form_email(client_email, client_name, firm_name): the
\* de-duplication set afterwards and what happened to the email
send_integration_form_email(forms, client_email, client_name, firm_name, send_ok) ==
    LET dedup_key == Str(client_email) \o ":" \o Str(firm_name)
        sender_email == IF Truthy(env.ADMIN_EMAIL) THEN env.ADMIN_EMAIL
                        ELSE FormGet(env.FROM_EMAIL, "onboarding@resend.dev")
    IN  IF dedup_key \in forms
        THEN [forms |-> forms, outcome |-> "duplicate"]
        ELSE [ forms |-> forms \cup {dedup_key},
               outcome |-> IF Contains(Lower(sender_email), "@gmail.com") THEN "gmail_sender"
                           ELSE IF send_ok THEN "sent"
                           ELSE "send_failed" ]

RECURSIVE FindMatch(_, _, _, _)
\* the loop of lines 796-805 over the dict in key order: the first record that
\* matches, none, or the AttributeError of None.lower() on a record whose email is None
FindMatch(convs, order, user_email, phone_number) ==
    IF Len(order) = 0 THEN [kind |-> "none", call_sid |-> None]
    ELSE LET conv == convs[Head(order)]
         IN  IF conv.email = None
             THEN [kind |-> "raise", call_sid |-> None]
             ELSE IF \/ Truthy(user_email) /\ Lower(conv.email) = Lower(user_email)
                     \/ Truthy(phone_number) /\ conv.phone_number = phone_number
                  THEN [kind |-> "match", call_sid |-> Head(order)]
                  ELSE FindMatch(convs, Tail(order), user_email, phone_number)

\* POST /webhook/payment-confirmed
payment_confirmed_webhook(project_id, user_email, phone_number, send_ok) ==
    LET webhook_key == "payment:" \o Str(project_id) \o ":" \o Str(user_email)
        m == FindMatch(conversations, conv_order, user_email, phone_number)
        matched_call_sid == m.call_sid
        marked == [conversations EXCEPT ![matched_call_sid] =
                      [@ EXCEPT !.payment_completed = TRUE,
                                !.payment_confirmed_by_webhook = TRUE,
                                !.project_id = project_id]]
        client_email == marked[matched_call_sid].email
        e == send_integration_form_email(sent_integration_forms, client_email,
                                         marked[matched_call_sid].client_name,
                                         marked[matched_call_sid].firm_name, send_ok)
        result(status, message) ==
            Result("payment-confirmed", None, None, None, <<>>, 0, FALSE, 0,
                   status, message, FALSE)
    IN  /\ IF webhook_key \in sent_integration_forms
           THEN /\ last' = result("success", "Already processed")
                /\ UNCHANGED <<conversations, sent_integration_forms, form_emails,
                               webhook_matched, webhook_processed>>
           ELSE IF m.kind = "raise"
           THEN /\ last' = result("error", "'NoneType' object has no attribute 'lower'")
                /\ UNCHANGED <<conversations, sent_integration_forms, form_emails,
                               webhook_matched, webhook_processed>>
           ELSE IF m.kind = "match"
           THEN /\ conversations' = marked
                /\ webhook_matched' = webhook_matched \cup {matched_call_sid}
                /\ webhook_processed' = webhook_processed \cup {<<project_id, user_email>>}
                /\ IF Truthy(client_email)
                   THEN /\ sent_integration_forms' = e.forms
                        /\ form_emails' =
                              IF e.outcome = "sent"
                              THEN Append(form_emails,
                                          [to |-> client_email, project_id |-> project_id])
                              ELSE form_emails
                   ELSE UNCHANGED <<sent_integration_forms, form_emails>>
                /\ last' = result("success", "Payment confirmed and integration form sent")
           ELSE /\ last' = result("warning", "Payment received but no active call found")
                /\ UNCHANGED <<conversations, sent_integration_forms, form_emails,
                               webhook_matched, webhook_processed>>
        /\ UNCHANGED <<env, conv_order, sent_notifications, notifications, llm_budget>>

-----------------------------------------------------------------------------
(* src/twilio_phone_integration.py: state and responses *)

Threads == 1..MaxThreads

\* ConversationStage values the telephone service can meet
COMPLETED == "completed"

\* VoiceSalesBot(): a new bot; pending is its pending_transcription list, empty
\* while the attribute is missing; saves observes the save_conversation calls
\* made on it, call_sid the call it was made for, removed_by the handler that
\* deleted its entry of active_conversations
VoiceSalesBot(call_sid) ==
    [ stage |-> "greeting", pending |-> << >>, saves |-> << >>, call_sid |-> call_sid,
      removed_by |-> "" ]

\* a thread that serves no request
Idle == [handler |-> "", call_sid |-> None, pc |-> "idle", bot |-> 0, arg |-> None]

\* the calls Twilio connects to the telephone service; its other requests may
\* name any call, also one the service holds no conversation for
ConnectedCalls == {"CA1"}

\* CallStatus of a /voice/status callback
CallStatuses == {"ringing", "completed"}

\* the statuses with "ringing" taken for a final one
TerminalStatuses_WithRinging == {"ringing", "completed", "busy", "no-answer", "failed", "canceled"}

\* the statuses call_status cleans up for
TerminalStatuses == {"completed", "busy", "no-answer", "failed", "canceled"}

\* Digits, SpeechResult and TranscriptionText of the telephone service's requests
PhoneDigits == {None, "1", "2", "5"}
PhoneSpeech == {None, "Hello"}
TranscriptionTexts == {None, "Hello"}

Record(action) == <<"Record", action>>
Pause(length) == <<"Pause", length>>

\* what the model records about a response of the telephone service: outcome is
\* "200" or the exception that ended the request
PhoneResult(handler, call_sid, arg, twiml, outcome) ==
    [ handler |-> handler, call_sid |-> call_sid, arg |-> arg, twiml |-> twiml,
      outcome |-> outcome ]

\* the first idle thread t takes up a request and goes on at pc
Serve(t, handler, call_sid, pc, bot, arg) ==
    /\ threads[t] = Idle
    /\ \A u \in 1..(t - 1) : threads[u] # Idle
    /\ threads' = [threads EXCEPT ![t] =
                      [handler |-> handler, call_sid |-> call_sid, pc |-> pc,
                       bot |-> bot, arg |-> arg]]

\* the thread t returns its response
Return(t, twiml, outcome) ==
    /\ threads' = [threads EXCEPT ![t] = Idle]
    /\ phone_last' = PhoneResult(threads[t].handler, threads[t].call_sid, threads[t].arg,
                                 twiml, outcome)

PhoneStart ==
    /\ active_conversations = << >>
    /\ bots = << >>
    /\ threads = [t \in Threads |-> Idle]
    /\ phone_last = PhoneResult("", None, None, << >>, "")

-----------------------------------------------------------------------------
(* src/twilio_phone_integration.py: handlers *)

\* the new bot of handle_incoming_call and outbound_greeting, stored under call_sid
StoreNewBot(call_sid) ==
    /\ Len(bots) < MaxBots
    /\ bots' = Append(bots, VoiceSalesBot(call_sid))
    /\ active_conversations' = Put(active_conversations, call_sid, Len(bots) + 1)

\* POST /voice/incoming
incoming(call_sid) ==
    /\ StoreNewBot(call_sid)
    /\ phone_last' = PhoneResult("incoming", call_sid, None,
                         << Gather("dtmf", "/voice/handle-response"),
                            Say("I didn't hear a response. Please press 1 to continue or 2 to schedule a callback."),
                            Redirect("/voice/incoming") >>, "200")
    /\ UNCHANGED threads

\* POST /voice/outbound-greeting
outbound_greeting(call_sid) ==
    /\ StoreNewBot(call_sid)
    /\ phone_last' = PhoneResult("outbound-greeting", call_sid, None,
                         << Gather("dtmf", "/voice/handle-response"),
                            Say("I didn't hear a response. I'll try calling back another time. Thanks!"),
                            Hangup >>, "200")
    /\ UNCHANGED threads

\* bot.chat_with_claude(user_input): the ways it may end. The method is called by
\* the handlers and defined nowhere in the sources at hand (their VoiceSalesBot
\* has chat_with_gpt); it is taken to be a chat turn that may leave the bot at
\* its stage or at COMPLETED, and may raise
Raised == "<raised>"
ChatOutcomes(stage) == {stage, COMPLETED, Raised}

\* the bot after a chat that ended with the stage outcome
chat_with_claude(bot, outcome) == [bot EXCEPT !.stage = outcome]

\* POST /voice/handle-response
handle_response(call_sid, digits, speech_result) ==
    LET result(twiml, outcome) == PhoneResult("handle-response", call_sid, digits, twiml, outcome)
    IN  /\ UNCHANGED <<active_conversations, threads>>
        /\ IF call_sid \notin DOMAIN active_conversations
           THEN /\ phone_last' = result(<< Say("I'm sorry, there was an error. Please call back."),
                                           Hangup >>, "200")
                /\ UNCHANGED bots
           ELSE IF Truthy(digits)
           THEN /\ phone_last' = result(
                       IF digits = "1"
                       THEN << Say("Great! Let me start by getting your name. What should I call you?"),
                               Record("/voice/process-recording") >>
                       ELSE IF digits = "2"
                       THEN << Say("No problem! I'll have someone call you back at a better time. Thanks for your interest!"),
                               Hangup >>
                       ELSE << Say("I didn't understand that. Please press 1 to continue or 2 for a callback."),
                               Redirect("/voice/handle-response") >>, "200")
                /\ UNCHANGED bots
           ELSE IF Truthy(speech_result)
           THEN LET b == active_conversations[call_sid]
                IN  \E outcome \in ChatOutcomes(bots[b].stage) :
                       IF outcome = Raised
                       THEN /\ phone_last' = result(<< >>, Raised)
                            /\ UNCHANGED bots
                       ELSE /\ bots' = [bots EXCEPT ![b] = chat_with_claude(@, outcome)]
                            /\ phone_last' = result(<< Say("reply"),
                                                       Record("/voice/process-recording") >>, "200")
           ELSE /\ phone_last' = result(<< >>, "200")
                /\ UNCHANGED bots

\* POST /voice/process-recording
process_recording(call_sid) ==
    /\ phone_last' = PhoneResult("process-recording", call_sid, None,
                         IF call_sid \notin DOMAIN active_conversations
                         THEN << Say("Session expired. Please call back."), Hangup >>
                         ELSE << Say("Please hold while I process that..."), Pause(2),
                                 Redirect("/voice/continue-conversation") >>,
                         "200")
    /\ UNCHANGED <<active_conversations, bots, threads>>

\* POST /voice/transcription
handle_transcription(call_sid, transcription_text) ==
    /\ phone_last' = PhoneResult("transcription", call_sid, transcription_text, << >>, "200")
    /\ IF call_sid \in DOMAIN active_conversations /\ Truthy(transcription_text)
       THEN LET b == active_conversations[call_sid]
            IN  /\ Len(bots[b].pending) < MaxPending
                /\ bots' = [bots EXCEPT ![b].pending = Append(@, transcription_text)]
       ELSE UNCHANGED bots
    /\ UNCHANGED <<active_conversations, threads>>

\* bot.save_conversation() called by the handler the thread t serves
save_conversation(t) ==
    bots' = [bots EXCEPT ![threads[t].bot].saves = Append(@, threads[t].handler)]

\* del active_conversations[call_sid] and the response after it; a KeyError
\* when the key is gone
DelAndReturn(t, twiml) ==
    IF threads[t].call_sid \in DOMAIN active_conversations
    THEN /\ active_conversations' = [call_sid \in (DOMAIN active_conversations) \ {threads[t].call_sid} |->
                                         active_conversations[call_sid]]
         /\ bots' = [bots EXCEPT ![active_conversations[threads[t].call_sid]].removed_by =
                                    threads[t].handler]
         /\ Return(t, twiml, "200")
    ELSE /\ Return(t, << >>, "KeyError")
         /\ UNCHANGED <<active_conversations, bots>>

\* POST /voice/continue-conversation, up to the test of the stage
continue_conversation(t, call_sid) ==
    LET result(twiml, outcome) == PhoneResult("continue-conversation", call_sid, None, twiml, outcome)
    IN  /\ UNCHANGED active_conversations
        /\ IF call_sid \notin DOMAIN active_conversations
           THEN /\ phone_last' = result(<< Say("Session expired."), Hangup >>, "200")
                /\ UNCHANGED <<bots, threads>>
           ELSE LET b == active_conversations[call_sid]
                    popped == [bots[b] EXCEPT !.pending = Tail(@)]
                IN  IF bots[b].pending = << >>
                    THEN /\ phone_last' = result(<< Pause(1),
                                                    Redirect("/voice/continue-conversation") >>, "200")
                         /\ UNCHANGED <<bots, threads>>
                    ELSE \E outcome \in ChatOutcomes(bots[b].stage) :
                            IF outcome = Raised
                            THEN /\ bots' = [bots EXCEPT ![b] = popped]
                                 /\ phone_last' = result(<< >>, Raised)
                                 /\ UNCHANGED threads
                            ELSE /\ bots' = [bots EXCEPT ![b] = chat_with_claude(popped, outcome)]
                                 /\ IF outcome = COMPLETED
                                    THEN /\ Serve(t, "continue-conversation", call_sid, "save", b, None)
                                         /\ UNCHANGED phone_last
                                    ELSE /\ phone_last' = result(<< Say("reply"),
                                                 Record("/voice/process-recording") >>, "200")
                                         /\ UNCHANGED threads

\* continue_conversation: bot.save_conversation()
continue_conversation_save(t) ==
    /\ threads[t].handler = "continue-conversation"
    /\ threads[t].pc = "save"
    /\ save_conversation(t)
    /\ threads' = [threads EXCEPT ![t].pc = "del"]
    /\ UNCHANGED <<active_conversations, phone_last>>

\* continue_conversation: del active_conversations[call_sid] and the response
continue_conversation_del(t) ==
    /\ threads[t].handler = "continue-conversation"
    /\ threads[t].pc = "del"
    /\ DelAndReturn(t, << Say("reply"),
                          Say("Thanks for your time! We'll be in touch soon. Have a great day!"),
                          Hangup >>)

\* POST /voice/status, up to the test call_sid in active_conversations
call_status(t, call_sid, status) ==
    IF status \in TerminalStatuses /\ call_sid \in DOMAIN active_conversations
    THEN /\ Serve(t, "status", call_sid, "get", 0, status)
         /\ UNCHANGED <<active_conversations, bots, phone_last>>
    ELSE /\ phone_last' = PhoneResult("status", call_sid, status, << >>, "200")
         /\ UNCHANGED <<active_conversations, bots, threads>>

\* call_status: bot = active_conversations[call_sid]
call_status_get(t) ==
    /\ threads[t].handler = "status"
    /\ threads[t].pc = "get"
    /\ IF threads[t].call_sid \in DOMAIN active_conversations
       THEN /\ threads' = [threads EXCEPT ![t].pc = "save",
                                          ![t].bot = active_conversations[threads[t].call_sid]]
            /\ UNCHANGED phone_last
       ELSE Return(t, << >>, "KeyError")
    /\ UNCHANGED <<active_conversations, bots>>

\* call_status: bot.save_conversation()
call_status_save(t) ==
    /\ threads[t].handler = "status"
    /\ threads[t].pc = "save"
    /\ save_conversation(t)
    /\ threads' = [threads EXCEPT ![t].pc = "del"]
    /\ UNCHANGED <<active_conversations, phone_last>>

\* call_status: del active_conversations[call_sid] and the response
call_status_del(t) ==
    /\ threads[t].handler = "status"
    /\ threads[t].pc = "del"
    /\ DelAndReturn(t, << >>)

-----------------------------------------------------------------------------
(* src/lawbot_voice_sales_agent.py: chat_with_gpt *)

\* ConversationContext(): the stage and the length of conversation_history, with
\* what the model records of the last chat_with_gpt call (their number, the
\* user's message and the assistant's)
ConversationContext ==
    [ current_stage |-> "greeting", messages |-> 0,
      calls |-> 0, user_message |-> None, assistant_message |-> None ]

stage_transitions ==
    [ greeting |-> [next |-> "discovery",
                    triggers |-> {"tell me about", "how do you", "what's your"}],
      discovery |-> [next |-> "solution_presentation",
                     triggers |-> {"sounds like", "lawbot can help", "exactly what we need"}],
      solution_presentation |-> [next |-> "pricing_discussion",
                                 triggers |-> {"how much", "what's the cost", "investment", "price"}],
      pricing_discussion |-> [next |-> "addons_presentation",
                              triggers |-> {"what else", "add-ons", "additional features"}],
      addons_presentation |-> [next |-> "maintenance_plans",
                               triggers |-> {"maintenance", "ongoing", "support"}],
      maintenance_plans |-> [next |-> "closing",
                             triggers |-> {"let's do it", "sounds good", "move forward"}],
      closing |-> [next |-> "portal_signup",
                   triggers |-> {"yes", "ready", "let's get started"}] ]

\* maybe_advance_stage(assistant_message): the stage afterwards
maybe_advance_stage(current_stage, assistant_message) ==
    LET message_lower == Lower(assistant_message)
    IN  IF current_stage \in DOMAIN stage_transitions
        THEN IF ContainsAny(message_lower, stage_transitions[current_stage].triggers)
             THEN stage_transitions[current_stage].next
             ELSE current_stage
        ELSE current_stage

TechnicalIssue == "I apologize, I'm having a technical issue. Could you repeat that?"

\* chat_with_gpt taking the user's message into account as well
chat_with_gpt_AdvancingOnUser(context, user_message, llm) ==
    LET assistant_message == IF llm = LLMRaises THEN TechnicalIssue ELSE llm
    IN  [ current_stage |-> maybe_advance_stage(
                                maybe_advance_stage(context.current_stage, user_message),
                                assistant_message),
          messages |-> context.messages + 2,
          calls |-> context.calls + 1,
          user_message |-> user_message,
          assistant_message |-> assistant_message ]

\* chat_with_gpt(user_message) with llm the outcome of the chat-completion call;
\* the email and the pain points it extracts are not followed
chat_with_gpt(context, user_message, llm) ==
    LET assistant_message == IF llm = LLMRaises THEN TechnicalIssue ELSE llm
    IN  [ current_stage |-> maybe_advance_stage(context.current_stage, assistant_message),
          messages |-> context.messages + 2,
          calls |-> context.calls + 1,
          user_message |-> user_message,
          assistant_message |-> assistant_message ]

\* what the prospect says: with and without words that are triggers of some stage
SalesUserMessages == {"Hello", "Yes, how much? Sounds good, tell me about add-ons"}

\* message.content of the agent's chat completions: one for the trigger of each
\* stage, one with triggers of several stages, one with none
SalesReplies ==
    { "Tell me about your firm.", "Sounds like a fit.", "The investment pays off.",
      "What else? We have more.", "Ongoing help is included.", "Shall we move forward?",
      "Are you READY?", "Tell me about it. Sounds like the price is ongoing, yes?",
      "I see." }

-----------------------------------------------------------------------------
(* src/human_update.py: chat_with_gpt *)

\* ConversationContext(): the stage, wants_human and the length of
\* conversation_history, with what the model records of the last chat_with_gpt
\* call: their number, the two messages, whether the chat-completion call raised,
\* and the stage and wants_human that create_system_prompt put into the prompt
human_update_ConversationContext ==
    [ current_stage |-> "greeting", wants_human |-> FALSE, messages |-> 0,
      calls |-> 0, user_message |-> None, assistant_message |-> None, raised |-> FALSE,
      prompt_stage |-> None, prompt_wants_human |-> FALSE ]

human_triggers ==
    {"speak to a person", "talk to someone", "human", "real person",
     "representative", "actual person", "transfer me", "speak to human"}

human_update_stage_transitions ==
    [ greeting |-> [next |-> "discovery",
                    triggers |-> {"who am i speaking", "your name", "tell me about"}],
      discovery |-> [next |-> "solution_presentation",
                     triggers |-> {"lawbot 360", "let me show", "solve that"}],
      solution_presentation |-> [next |-> "pricing_discussion",
                                 triggers |-> {"investment is", "25,000", "$25"}],
      pricing_discussion |-> [next |-> "closing",
                              triggers |-> {"does that work", "let's get you set"}] ]

\* maybe_advance_stage(assistant_message) of human_update.py: the stage afterwards
human_update_maybe_advance_stage(current_stage, assistant_message) ==
    LET message_lower == Lower(assistant_message)
    IN  IF current_stage = "human_handoff" THEN current_stage
        ELSE IF current_stage \in DOMAIN human_update_stage_transitions
        THEN IF ContainsAny(message_lower, human_update_stage_transitions[current_stage].triggers)
             THEN human_update_stage_transitions[current_stage].next
             ELSE current_stage
        ELSE current_stage

TransferApology ==
    "I apologize, I'm having a technical issue. Let me transfer you to a human who can help."

\* chat_with_gpt looking for the human triggers after the prompt is built, and
\* in the user's words as they were typed
human_update_chat_with_gpt_LateHandoff(context, user_message, llm) ==
    LET asked == ContainsAny(user_message, human_triggers)
        raised == llm = LLMRaises
        assistant_message == IF raised THEN TransferApology ELSE llm
        stage == IF asked \/ raised THEN "human_handoff" ELSE context.current_stage
    IN  [ current_stage |-> human_update_maybe_advance_stage(stage, assistant_message),
          wants_human |-> context.wants_human \/ asked \/ raised,
          messages |-> context.messages + 2,
          calls |-> context.calls + 1,
          user_message |-> user_message,
          assistant_message |-> assistant_message,
          raised |-> raised,
          prompt_stage |-> context.current_stage,
          prompt_wants_human |-> context.wants_human ]

\* chat_with_gpt(user_message) of human_update.py with llm the outcome of the
\* chat-completion call; the email and the phone it extracts are not followed
human_update_chat_with_gpt(context, user_message, llm) ==
    LET user_lower == Lower(user_message)
        asked == ContainsAny(user_lower, human_triggers)
        stage1 == IF asked THEN "human_handoff" ELSE context.current_stage
        wants1 == asked \/ context.wants_human
        raised == llm = LLMRaises
        assistant_message == IF raised THEN TransferApology ELSE llm
        stage2 == IF raised THEN "human_handoff" ELSE stage1
    IN  [ current_stage |-> human_update_maybe_advance_stage(stage2, assistant_message),
          wants_human |-> wants1 \/ raised,
          messages |-> context.messages + 2,
          calls |-> context.calls + 1,
          user_message |-> user_message,
          assistant_message |-> assistant_message,
          raised |-> raised,
          prompt_stage |-> stage1,
          prompt_wants_human |-> wants1 ]

\* what the prospect says: nothing about a human, and a wish for one in capitals
HandoffUserMessages == {"Hello", "I want a HUMAN", "Transfer me please"}

\* message.content of this agent's chat completions: one for the trigger of each
\* stage, one with none
HandoffReplies ==
    { "May I have your name?", "Let me show you LawBot 360.", "The investment is $25,000.",
      "Does that work for you?", "I see." }

-----------------------------------------------------------------------------
(* The process *)

Start(envs, budget) ==
    /\ env \in envs
    /\ conversations = << >>
    /\ conv_order = << >>
    /\ sent_notifications = {}
    /\ sent_integration_forms = {}
    /\ notifications = [call_sid \in CallSids |-> << >>]
    /\ form_emails = << >>
    /\ webhook_matched = {}
    /\ webhook_processed = {}
    /\ last = NoResult
    /\ llm_budget = budget
    /\ PhoneStart
    /\ sales = ConversationContext
    /\ handoff = human_update_ConversationContext

Init == Start(Environments, MaxAICalls)

InboundCall ==
    /\ UNCHANGED notMain
    /\ \E call_sid \in CallSids : handle_inbound_call(call_sid)

ColdCall ==
    /\ UNCHANGED notMain
    /\ \E call_sid \in CallSids : initiate_cold_call(call_sid)

ColdCallResponse ==
    /\ UNCHANGED notMain
    /\ \E call_sid \in CallSids, speech \in ColdCallSpeech, digits \in ColdCallDigits :
           handle_cold_call_response(call_sid, speech, digits, LLMOutcomes)

HandleChoice ==
    /\ UNCHANGED notMain
    /\ \E call_sid \in CallSids, digits \in MenuDigits, from_number \in FromNumbers :
           handle_choice(call_sid, digits, from_number, LLMOutcomes)

Conversation ==
    /\ UNCHANGED notMain
    /\ \E call_sid \in CallSids, speech \in SpeechInputs, digits \in ConversationDigits,
          from_number \in FromNumbers :
           conversation(call_sid, speech, digits, from_number, LLMOutcomes)

ConversationAfterRedirect ==
    /\ UNCHANGED notMain
    /\ \E from_number \in FromNumbers :
           conversation_after_redirect(from_number, LLMOutcomes)

DialStatus ==
    /\ UNCHANGED notMain
    /\ \E call_sid \in CallSids, from_number \in FromNumbers, st \in DialStatuses :
           dial_status(call_sid, from_number, st)

FallbackChoice ==
    /\ UNCHANGED notMain
    /\ \E call_sid \in CallSids, digits \in MenuDigits, from_number \in FromNumbers :
           fallback_choice(call_sid, digits, from_number)

PaymentConfirmed ==
    /\ UNCHANGED notMain
    /\ \E project_id \in ProjectIds, user_email \in WebhookEmails,
          phone_number \in WebhookPhones, send_ok \in BOOLEAN :
           payment_confirmed_webhook(project_id, user_email, phone_number, send_ok)

Next ==
    \/ InboundCall
    \/ ColdCall
    \/ ColdCallResponse
    \/ HandleChoice
    \/ Conversation
    \/ ConversationAfterRedirect
    \/ DialStatus
    \/ FallbackChoice
    \/ PaymentConfirmed

\* every handler, every call, every input
Spec == Init /\ [][Next]_vars

-----------------------------------------------------------------------------
(* One caller who takes the AI from the menu, talks to it and pays *)

TheCall == "CA1"
TheCaller == "+15550001"

InitPayment == Start({Deployed}, MaxPaymentAICalls)

\* what this caller says: a yes, and the firm and email address
PaymentSpeech == {"a Human please", "Yes.", "law bob@x.com."}

CallerChoosesAI ==
    /\ UNCHANGED notMain
    /\ handle_choice(TheCall, "1", TheCaller, LLMOutcomes)

CallerSpeaks ==
    /\ UNCHANGED notMain
    /\ \E speech \in PaymentSpeech :
           conversation(TheCall, speech, None, TheCaller, LLMOutcomes)

NextPayment ==
    \/ CallerChoosesAI
    \/ CallerSpeaks
    \/ PaymentConfirmed

SpecPayment == InitPayment /\ [][NextPayment]_vars

-----------------------------------------------------------------------------
(* The same caller giving the firm's name a second time *)

InitFirmName == Start({Deployed}, MaxFirmNameAICalls)

\* what this caller says: the firm and email address, later the firm's name again
FirmNameSpeech == {"a Human please", "law bob@x.com.", "Jones Law"}

\* what the chat-completion API answers to this caller
FirmNameReplies == {"Does that sound good?"}

FirmNameChoosesAI ==
    /\ UNCHANGED notMain
    /\ handle_choice(TheCall, "1", TheCaller, FirmNameReplies)

FirmNameSpeaks ==
    /\ UNCHANGED notMain
    /\ \E speech \in FirmNameSpeech :
           conversation(TheCall, speech, None, TheCaller, FirmNameReplies)

NextFirmName ==
    \/ FirmNameChoosesAI
    \/ FirmNameSpeaks
    \/ PaymentConfirmed

SpecFirmName == InitFirmName /\ [][NextFirmName]_vars

-----------------------------------------------------------------------------
(* Two calls that reach the AI, by the menu or by a cold call, and talk to it *)

\* what these callers say: a yes, and the firm and email address
TwoCallsSpeech == {"Yes.", "law bob@x.com."}

\* what the chat-completion API does for these callers
TwoCallsReplies == {"Does that sound good?", LLMRaises}

TwoCallsInbound ==
    /\ UNCHANGED notMain
    /\ \E call_sid \in CallSids : handle_inbound_call(call_sid)

TwoCallsColdCall ==
    /\ UNCHANGED notMain
    /\ \E call_sid \in CallSids : initiate_cold_call(call_sid)

TwoCallsColdCallResponse ==
    /\ UNCHANGED notMain
    /\ \E call_sid \in CallSids : handle_cold_call_response(call_sid, "Yes.", None, TwoCallsReplies)

TwoCallsChooseAI ==
    /\ UNCHANGED notMain
    /\ \E call_sid \in CallSids : handle_choice(call_sid, "1", TheCaller, TwoCallsReplies)

TwoCallsSpeak ==
    /\ UNCHANGED notMain
    /\ \E call_sid \in CallSids, speech \in TwoCallsSpeech :
           conversation(call_sid, speech, None, TheCaller, TwoCallsReplies)

TwoCallsDialStatus ==
    /\ UNCHANGED notMain
    /\ \E call_sid \in CallSids : dial_status(call_sid, TheCaller, "busy")

NextTwoCalls ==
    \/ TwoCallsInbound
    \/ TwoCallsColdCall
    \/ TwoCallsColdCallResponse
    \/ TwoCallsChooseAI
    \/ TwoCallsSpeak
    \/ TwoCallsDialStatus

SpecTwoCalls == Start({Deployed}, MaxTwoCallsAICalls) /\ [][NextTwoCalls]_vars

-----------------------------------------------------------------------------
(* One caller who takes the AI from the menu and answers its questions *)

\* what this caller says: a plain yes, and a yes with more words
AnswersSpeech == {"Yes.", "Yes please"}

\* what the chat-completion API does for this caller: a closing question, a
\* discovery question with a closing phrase in it, or an error
AnswersReplies == {"Does that sound good?", "Do you have a website? Would that help?", LLMRaises}

\* the caller's choice of the AI is answered with a closing question
AnswersChoosesAI ==
    /\ UNCHANGED notMain
    /\ handle_choice(TheCall, "1", TheCaller, {"Does that sound good?"})

AnswersSpeaks ==
    /\ UNCHANGED notMain
    /\ \E speech \in AnswersSpeech :
           conversation(TheCall, speech, None, TheCaller, AnswersReplies)

NextAnswers ==
    \/ AnswersChoosesAI
    \/ AnswersSpeaks

SpecAnswers == Start({Deployed}, MaxAnswersAICalls) /\ [][NextAnswers]_vars

-----------------------------------------------------------------------------
(* The telephone service: requests for every call, served on threads *)

Incoming ==
    /\ UNCHANGED notPhone
    /\ \E call_sid \in ConnectedCalls : incoming(call_sid)

OutboundGreeting ==
    /\ UNCHANGED notPhone
    /\ \E call_sid \in ConnectedCalls : outbound_greeting(call_sid)

HandleResponse ==
    /\ UNCHANGED notPhone
    /\ \E call_sid \in CallSids, digits \in PhoneDigits, speech \in PhoneSpeech :
           handle_response(call_sid, digits, speech)

ProcessRecording ==
    /\ UNCHANGED notPhone
    /\ \E call_sid \in CallSids : process_recording(call_sid)

Transcription ==
    /\ UNCHANGED notPhone
    /\ \E call_sid \in CallSids, text \in TranscriptionTexts :
           handle_transcription(call_sid, text)

ContinueConversation ==
    /\ UNCHANGED notPhone
    /\ \E t \in Threads, call_sid \in CallSids : continue_conversation(t, call_sid)

\* a thread that found COMPLETED takes its next step
ContinueConversationStep ==
    /\ UNCHANGED notPhone
    /\ \E t \in Threads : continue_conversation_save(t) \/ continue_conversation_del(t)

CallStatus ==
    /\ UNCHANGED notPhone
    /\ \E t \in Threads, call_sid \in CallSids, status \in CallStatuses :
           call_status(t, call_sid, status)

\* a thread that found the entry at a final status takes its next step
CallStatusStep ==
    /\ UNCHANGED notPhone
    /\ \E t \in Threads : call_status_get(t) \/ call_status_save(t) \/ call_status_del(t)

NextPhone ==
    \/ Incoming
    \/ OutboundGreeting
    \/ HandleResponse
    \/ ProcessRecording
    \/ Transcription
    \/ ContinueConversation
    \/ ContinueConversationStep
    \/ CallStatus
    \/ CallStatusStep

SpecPhone == Start({Deployed}, 0) /\ [][NextPhone]_vars

-----------------------------------------------------------------------------
(* The sales agent in a conversation *)

ChatWithGpt ==
    /\ sales.calls < MaxSalesChats
    /\ \E user_message \in SalesUserMessages, llm \in SalesReplies \cup {LLMRaises} :
          sales' = chat_with_gpt(sales, user_message, llm)
    /\ UNCHANGED <<mainVars, phoneVars, handoff>>

SpecSales == Start({Deployed}, 0) /\ [][ChatWithGpt]_vars

-----------------------------------------------------------------------------
(* The agent with the human handoff in a conversation *)

HumanUpdateChat ==
    /\ handoff.calls < MaxHandoffChats
    /\ \E user_message \in HandoffUserMessages, llm \in HandoffReplies \cup {LLMRaises} :
          handoff' = human_update_chat_with_gpt(handoff, user_message, llm)
    /\ UNCHANGED <<mainVars, phoneVars, sales>>

SpecHandoff == Start({Deployed}, 0) /\ [][HumanUpdateChat]_vars

-----------------------------------------------------------------------------
(* Properties of the payment webhook *)

\* the webhook names the email address or the phone number of this record
NamesRecord(conv, user_email, phone_number) ==
    \/ Truthy(user_email) /\ conv.email # None /\ Lower(conv.email) = Lower(user_email)
    \/ Truthy(phone_number) /\ conv.phone_number = phone_number

\* C1: whatever the conversations mapping holds (records whose email is still
\* None included), a payment-confirmed webhook whose user_email or phone_number
\* names some record sets payment_completed and payment_confirmed_by_webhook on
\* a record it names, stores project_id on it and returns status 'success'.
C1_WebhookMarksNamedRecord ==
    [][ \A project_id \in ProjectIds, user_email \in WebhookEmails,
           phone_number \in WebhookPhones, send_ok \in BOOLEAN :
            ( /\ payment_confirmed_webhook(project_id, user_email, phone_number, send_ok)
              /\ \E sid \in DOMAIN conversations :
                    NamesRecord(conversations[sid], user_email, phone_number) )
            => /\ last'.status = "success"
               /\ \E sid \in DOMAIN conversations :
                    /\ NamesRecord(conversations[sid], user_email, phone_number)
                    /\ conversations'[sid].payment_completed
                    /\ conversations'[sid].payment_confirmed_by_webhook
                    /\ conversations'[sid].project_id = project_id ]_vars

\* C2: once a payment-confirmed webhook for a project_id and user_email has been
\* processed, a later webhook with the same project_id and user_email returns
\* 'Already processed', changes no conversation record and attempts no email.
C2_RetryIsSkipped ==
    [][ \A project_id \in ProjectIds, user_email \in WebhookEmails,
           phone_number \in WebhookPhones, send_ok \in BOOLEAN :
            ( /\ <<project_id, user_email>> \in webhook_processed
              /\ payment_confirmed_webhook(project_id, user_email, phone_number, send_ok) )
            => /\ last'.message = "Already processed"
               /\ conversations' = conversations
               /\ sent_integration_forms' = sent_integration_forms
               /\ form_emails' = form_emails ]_vars

\* C3: over any sequence of /voice/conversation requests and payment-confirmed
\* webhooks, at most one integration-form email is sent for the same client
\* email and project_id, also when the captured firm_name changed in between.
C3_OneFormPerEmailAndProject ==
    \A i, j \in 1..Len(form_emails) :
        (form_emails[i].to = form_emails[j].to
            /\ form_emails[i].project_id = form_emails[j].project_id) => i = j

\* C6: a conversation record has payment_confirmed_by_webhook = True only if
\* an earlier payment-confirmed webhook matched that record.
C6_ConfirmedOnlyByWebhook ==
    \A sid \in DOMAIN conversations :
        conversations[sid].payment_confirmed_by_webhook => sid \in webhook_matched

\* a webhook has just confirmed the payment of a call the AI talked to twice
C6_Witness ==
    /\ last.handler = "payment-confirmed"
    /\ last.status = "success"
    /\ \E sid \in DOMAIN conversations :
          /\ conversations[sid].payment_confirmed_by_webhook
          /\ Len(conversations[sid].history) = 4

\* C7: a conversation record with payment_completed = True also has
\* payment_confirmed_by_webhook = True; no speech and no AI reply marks the
\* payment as completed.
C7_CompletedOnlyByWebhook ==
    \A sid \in DOMAIN conversations :
        conversations[sid].payment_completed => conversations[sid].payment_confirmed_by_webhook

-----------------------------------------------------------------------------
(* Properties of the voice handlers *)

\* C4: at most one human-transfer notification is produced per CallSid, the
\* call being marked in sent_notifications with it; later notify_human_transfer
\* calls for the CallSid produce nothing, also when the first email failed.
C4_OneNotificationPerCall ==
    \A sid \in CallSids :
        /\ Len(notifications[sid]) <= 1
        /\ Len(notifications[sid]) = 1 <=> sid \in sent_notifications

\* the caller took the AI from the menu, which notified and failed to send, and
\* then pressed 2 on the same call: a second notify_human_transfer call
C4_Witness ==
    /\ last.handler = "handle-choice"
    /\ last.digits = "2"
    /\ last.notify_calls = 1
    /\ last.call_sid \in DOMAIN conversations
    /\ conversations[last.call_sid].history[1].content
          = "User chose AI assistant to learn about LawBot 360"
    /\ notifications[last.call_sid] = <<"send_failed">>

\* C5: when the chat-completion call raises while /voice/conversation handles a
\* non-empty SpeechResult, the response speaks the canned apology and then
\* transfers to a human after one notification attempt, with one
\* get_ai_response call and no Gather.
C5_OutageApologisesAndTransfers ==
    (last.handler = "conversation" /\ last.ai_raised)
        => /\ last.twiml[1] = Say("I apologize, let me connect you with a human specialist who can help.")
           /\ SubSeq(last.twiml, 2, Len(last.twiml)) = transfer_to_human
           /\ ~HasVerb(last.twiml, "Gather")
           /\ last.ai_calls = 1
           /\ last.notify_calls = 1
           /\ last.call_sid \in sent_notifications

\* the chat-completion call raised on a spoken request and the caller is dialled through
C5_Witness ==
    /\ last.handler = "conversation"
    /\ last.ai_raised
    /\ last.speech = "Yes."
    /\ HasVerb(last.twiml, "Dial")

\* C8: /voice/handle-choice answers every Digits value other than '1' with
\* TwiML that transfers to a human after a notification attempt, calling
\* get_ai_response never and creating no conversation record; and the
\* /voice/inbound TwiML ends with the transfer verbs.
C8_MenuDefaultsToHuman ==
    [][ /\ (last'.handler = "handle-choice" /\ last'.digits # "1")
            => /\ conversations' = conversations
               /\ llm_budget' = llm_budget
               /\ last'.ai_calls = 0
               /\ last'.notify_calls = 1
               /\ last'.call_sid \in sent_notifications'
               /\ last'.twiml[1][1] = "Say"
               /\ Tail(last'.twiml) = transfer_to_human
        /\ last'.handler = "inbound"
            => SubSeq(last'.twiml, Len(last'.twiml) - Len(transfer_to_human) + 1,
                      Len(last'.twiml)) = transfer_to_human ]_vars

\* a caller with an AI conversation on record sent no key to the menu and is dialled through
C8_Witness ==
    /\ last.handler = "handle-choice"
    /\ last.digits = None
    /\ last.ai_calls = 0
    /\ HasVerb(last.twiml, "Dial")
    /\ DOMAIN conversations # {}

\* C9: when /voice/conversation receives Digits containing '*' or a SpeechResult
\* containing 'human', 'person', 'representative' or 'transfer' in any case, it
\* returns transfer TwiML without calling get_ai_response and leaves the
\* conversation records unchanged.
C9_HumanRequestComesFirst ==
    [][ ( /\ last'.handler = "conversation"
          /\ \/ Contains(FormGet(last'.digits, ""), "*")
             \/ \E w \in {"human", "person", "representative", "transfer"} :
                    Contains(Lower(FormGet(last'.speech, "")), w) )
        => /\ conversations' = conversations
           /\ conv_order' = conv_order
           /\ llm_budget' = llm_budget
           /\ last'.ai_calls = 0
           /\ last'.twiml = << Say("Of course, let me transfer you to a specialist now.") >>
                               \o transfer_to_human ]_vars

\* a caller whose call has a record asked for a human in capitals and is dialled through
C9_Witness ==
    /\ last.handler = "conversation"
    /\ last.speech = "a Human please"
    /\ last.call_sid \in DOMAIN conversations
    /\ last.ai_calls = 0
    /\ HasVerb(last.twiml, "Dial")

\* C10: the request Twilio makes for the <Redirect> of /voice/cold-call-response
\* (the CallSid, no SpeechResult, no Digits) is answered with a speech Gather
\* posting to /voice/conversation and not with a transfer to a human.
C10_RedirectContinuesWithAI ==
    last.redirected
        => /\ \E i \in 1..Len(last.twiml) :
                 last.twiml[i] = Gather("speech", "/voice/conversation")
           /\ last.notify_calls = 0
           /\ last.twiml[Len(last.twiml)] # transfer_to_human[Len(transfer_to_human)]

-----------------------------------------------------------------------------
(* Properties of the telephone service *)

\* the step ends a request with the response phone_last'
Responds ==
    \/ threads' = threads
    \/ \E t \in Threads : threads[t] # Idle /\ threads'[t] = Idle

\* the step is the whole of a request to handler for call_sid, answered with phone_last'
Answers(handler, call_sid) ==
    /\ threads' = threads
    /\ phone_last'.handler = handler
    /\ phone_last'.call_sid = call_sid

\* a response that says one error message and hangs up
SaysErrorAndHangsUp(twiml) ==
    /\ Len(twiml) = 2
    /\ twiml[1] \in { Say("I'm sorry, there was an error. Please call back."),
                      Say("Session expired. Please call back."),
                      Say("Session expired.") }
    /\ twiml[2] = Hangup

-----------------------------------------------------------------------------
(* Properties of the conversation records *)

\* h starts with g
StartsWith(h, g) == Len(g) <= Len(h) /\ SubSeq(h, 1, Len(g)) = g

\* C12: a CallSid gets its record only in a request for it that calls
\* get_ai_response, and the record then has phase SALES, current_step 1,
\* committed False, both payment flags False and a history that holds nothing
\* before that request's user message; a CallSid that has a record keeps it, with
\* its history continued and a captured email kept; and a request of a voice
\* handler for one CallSid leaves the record of every other CallSid as it was,
\* and gives none to a CallSid that had none.
C12_RecordsAreCreatedOnceAndApart ==
    [][ \A call_sid \in CallSids :
          /\ ( call_sid \notin DOMAIN conversations /\ call_sid \in DOMAIN conversations' )
             => /\ last'.call_sid = call_sid
                /\ last'.ai_calls = 1
                /\ LET conv == conversations'[call_sid]
                   IN  /\ conv.phase = "SALES"
                       /\ conv.current_step = 1
                       /\ conv.committed = FALSE
                       /\ conv.payment_completed = FALSE
                       /\ conv.payment_confirmed_by_webhook = FALSE
                       /\ Len(conv.history) \in {1, 2}
                       /\ conv.history[1].role = "user"
                       /\ \A i \in 2..Len(conv.history) : conv.history[i].role = "assistant"
          /\ call_sid \in DOMAIN conversations
             => /\ call_sid \in DOMAIN conversations'
                /\ StartsWith(conversations'[call_sid].history, conversations[call_sid].history)
                /\ conversations[call_sid].email # None => conversations'[call_sid].email # None
          /\ last'.call_sid # call_sid
             => IF call_sid \in DOMAIN conversations
                THEN /\ call_sid \in DOMAIN conversations'
                     /\ conversations'[call_sid] = conversations[call_sid]
                ELSE call_sid \notin DOMAIN conversations' ]_vars

\* both calls have a record, and the one that spoke last had one before it spoke
C12_Witness ==
    /\ DOMAIN conversations = CallSids
    /\ last.handler = "conversation"
    /\ last.ai_calls = 1
    /\ Len(conversations[last.call_sid].history) >= 3
    /\ conversations[last.call_sid].email = "bob@x.com"

\* phase and committed of the record of call_sid, those of a new record when it has none
PhaseOf(convs, call_sid) ==
    IF call_sid \in DOMAIN convs THEN convs[call_sid].phase ELSE "SALES"

CommittedOf(convs, call_sid) ==
    IF call_sid \in DOMAIN convs THEN convs[call_sid].committed ELSE FALSE

HistoryOf(convs, call_sid) ==
    IF call_sid \in DOMAIN convs THEN convs[call_sid].history ELSE << >>

\* the latest assistant message among the last three entries of h is a closing
\* question and no discovery question (the user's message, not yet in h, being
\* the fourth of the last four)
AskedForCommitment(h) ==
    LET recent == {i \in 1..Len(h) : i > Len(h) - 3 /\ h[i].role = "assistant"}
    IN  /\ recent # {}
        /\ LET asked == Lower(h[CHOOSE i \in recent : \A j \in recent : j <= i].content)
           IN  /\ \E c \in closing_indicators : Contains(asked, c)
               /\ \A d \in discovery_indicators : ~Contains(asked, d)

\* C13: a get_ai_response call moves the record from SALES to ONBOARDING, with
\* committed True and current_step 1, exactly when the phase is SALES, the user's
\* input, lower-cased and stripped of blanks and of final punctuation, is an
\* affirmative response, and the most recent assistant message among the last
\* four history entries (the last being the user's) has a closing indicator and
\* no discovery indicator; in every other call phase and committed stay as they
\* were.
C13_PhaseSwitchesOnYesToClosingQuestion ==
    [][ \A call_sid \in CallSids :
          ( last'.ai_calls = 1 /\ last'.call_sid = call_sid )
          => LET h == HistoryOf(conversations, call_sid)
                 user_input == conversations'[call_sid].history[Len(h) + 1].content
                 clean == RStripChars(Strip(Lower(user_input)), ".,!?;")
                 switches == /\ PhaseOf(conversations, call_sid) = "SALES"
                             /\ clean \in affirmative_responses
                             /\ AskedForCommitment(h)
             IN  /\ conversations'[call_sid].history[Len(h) + 1].role = "user"
                 /\ IF switches
                    THEN /\ conversations'[call_sid].phase = "ONBOARDING"
                         /\ conversations'[call_sid].committed = TRUE
                         /\ conversations'[call_sid].current_step = 1
                    ELSE /\ conversations'[call_sid].phase = PhaseOf(conversations, call_sid)
                         /\ conversations'[call_sid].committed = CommittedOf(conversations, call_sid) ]_vars

\* the caller said yes to the closing question and the record is in ONBOARDING
C13_Witness ==
    /\ last.handler = "conversation"
    /\ last.speech = "Yes."
    /\ last.ai_calls = 1
    /\ last.call_sid \in DOMAIN conversations
    /\ LET conv == conversations[last.call_sid]
       IN  /\ conv.phase = "ONBOARDING"
           /\ conv.committed
           /\ \E i \in 1..Len(conv.history) :
                 /\ conv.history[i] = Msg("assistant", "Does that sound good?")
                 /\ i + 1 <= Len(conv.history)
                 /\ conv.history[i + 1] = Msg("user", "Yes.")

\* the handler h called save_conversation on the bot b
SavedBy(b, h) == \E i \in 1..Len(bots[b].saves) : bots[b].saves[i] = h

\* b is the newest bot made for its call
NewestOfCall(b) ==
    \A c \in 1..Len(bots) : bots[c].call_sid = bots[b].call_sid => c <= b

-----------------------------------------------------------------------------
(* Properties of the sales agents *)

\* the stages in the order the sales agent goes through them
StageChain ==
    << "greeting", "discovery", "solution_presentation", "pricing_discussion",
       "addons_presentation", "maintenance_plans", "closing", "portal_signup" >>

\* the place of a stage in the chain, 0 for a stage that is not in it
PlaceInChain(stage) ==
    IF \E i \in 1..Len(StageChain) : StageChain[i] = stage
    THEN CHOOSE i \in 1..Len(StageChain) : StageChain[i] = stage
    ELSE 0

\* C15: a chat_with_gpt call leaves current_stage where it was or moves it to the
\* next stage of the chain greeting, discovery, solution_presentation,
\* pricing_discussion, addons_presentation, maintenance_plans, closing,
\* portal_signup, never back and never past a stage; it moves exactly when the
\* assistant's reply, lower-cased, contains a trigger of the stage the call began
\* in, whatever the user's message says.
C15_OneStageForwardOnReplyTrigger ==
    [][ sales'.calls = sales.calls + 1
        => LET before == PlaceInChain(sales.current_stage)
               after == PlaceInChain(sales'.current_stage)
               triggered ==
                   /\ sales.current_stage \in DOMAIN stage_transitions
                   /\ \E trigger \in stage_transitions[sales.current_stage].triggers :
                         Contains(Lower(sales'.assistant_message), trigger)
           IN  /\ before >= 1
               /\ after = IF triggered THEN before + 1 ELSE before
               /\ after <= Len(StageChain) ]_vars

\* the agent reached portal_signup on a reply whose trigger is in capitals, the
\* prospect having said only hello
C15_Witness ==
    /\ sales.current_stage = "portal_signup"
    /\ sales.calls = 7
    /\ sales.assistant_message = "Are you READY?"
    /\ sales.user_message = "Hello"

\* C16: in a chat_with_gpt call of human_update.py whose user message contains a
\* human trigger (in any case of letters), the system prompt is built with the
\* stage at human_handoff and wants_human True; and a call whose chat-completion
\* request raises returns the transfer apology, with the stage at human_handoff
\* and wants_human True on return.
C16_HandoffBeforePromptAndOnError ==
    [][ handoff'.calls = handoff.calls + 1
        => /\ ( \E trigger \in { "speak to a person", "talk to someone", "human", "real person",
                                 "representative", "actual person", "transfer me",
                                 "speak to human" } :
                   Contains(Lower(handoff'.user_message), trigger) )
              => /\ handoff'.prompt_stage = "human_handoff"
                 /\ handoff'.prompt_wants_human = TRUE
           /\ handoff'.raised
              => /\ handoff'.assistant_message =
                       "I apologize, I'm having a technical issue. Let me transfer you to a human who can help."
                 /\ handoff'.current_stage = "human_handoff"
                 /\ handoff'.wants_human = TRUE ]_vars

\* the chat-completion request failed for a prospect well into the conversation
\* who had not asked for a human
C16_Witness ==
    /\ handoff.raised
    /\ handoff.user_message = "Hello"
    /\ handoff.prompt_stage = "pricing_discussion"
    /\ handoff.prompt_wants_human = FALSE
    /\ handoff.current_stage = "human_handoff"
    /\ handoff.wants_human

====
